---- MODULE Spec2Model ----
(***************************************************************************)
(* A model of the Trie store of src/src/Trie.js: a character-level prefix  *)
(* tree (rootSocket and the Node objects hanging below it) with a flat     *)
(* table from key to Node.  Strings are sequences of one-character         *)
(* strings.  JavaScript objects used as maps (a socket, the table) are     *)
(* sequences of properties in creation order, read through ObjectKeys,     *)
(* which orders them the way Object.keys does.  The table is a plain       *)
(* object, so reading it under a name Object.prototype defines ("valueOf",  *)
(* "constructor", "toString", ...) yields the inherited member.  The        *)
(* accessor name "__proto__", whose assignment replaces the table's         *)
(* prototype instead of adding an entry, is not among the keys modelled.    *)
(***************************************************************************)
EXTENDS Integers, Sequences, FiniteSets, TLC

VARIABLES
  rootSocket,  \* this.rootSocket: the children of the root
  heap,        \* the Node objects, by identity
  table,       \* this.table: key -> Node
  contents,    \* what the caller has put and not taken out: a set of <<key, value>>
  inserted,    \* the keys of contents, in the order the caller first put them
  last         \* the last call: its operation and the way it went

vars == <<rootSocket, heap, table, contents, inserted, last>>

\* ------------------------------------------------------------------ bounds

\* Most keys stored at once.
MaxKeys == 3

\* The largest count match is called with.
MaxLimit == 3

\* The payloads: the store never looks into a value, so two tell an
\* overwrite, and one key's value from another's, apart.
Values == {"v1", "v2"}

\* ------------------------------------------------------- JavaScript values

\* The value undefined (a missing property, a Node without name or value) is
\* the empty tuple, and a defined value x is <<x>>.
Undefined == <<>>

Some(x) == <<x>>

\* The pseudo node `new Node({ socket: this.rootSocket })` the walks start at.
Root == [path |-> <<>>, gen |-> -1]

\* What an inherited property of Object.prototype reads as: an object that
\* is no Node, with no socket, name or value of its own.
Inherited == [path |-> <<"Object.prototype">>, gen |-> -1]

\* Names every plain object ({}) inherits from Object.prototype; the table is
\* such an object, so this.table[name] is never undefined for them.
ObjectPrototypeKeys == { <<"v", "a", "l", "u", "e", "O", "f">> }

\* if (key) / if (node.name): undefined and the empty string are falsy.
TruthyString(x) == x # Undefined /\ x[1] # <<>>

\* if (count): undefined and 0 are falsy.
TruthyNumber(x) == x # Undefined /\ x[1] # 0

\* The strings the operations are called with: the empty string, a chain
\* "a" < "ab" < "abc", a fork below "a" with a digit edge ("a1"), siblings at
\* the root ("b", and "1", which is also an array index), and a name that
\* Object.prototype defines.
Keys ==
  { <<>>, <<"a">>, <<"a", "b">>, <<"a", "b", "c">>, <<"a", "1">>, <<"b">>, <<"1">> }
    \cup ObjectPrototypeKeys

IsPrefix(p, k) == Len(p) <= Len(k) /\ SubSeq(k, 1, Len(p)) = p

\* ------------------------------------------------------------ Object.keys

DigitVal(c) ==
  CASE c = "0" -> 0 [] c = "1" -> 1 [] c = "2" -> 2 [] c = "3" -> 3 [] c = "4" -> 4
    [] c = "5" -> 5 [] c = "6" -> 6 [] c = "7" -> 7 [] c = "8" -> 8 [] c = "9" -> 9
    [] OTHER -> -1

RECURSIVE NumVal(_)
NumVal(k) == IF k = <<>> THEN 0 ELSE 10 * NumVal(SubSeq(k, 1, Len(k) - 1)) + DigitVal(k[Len(k)])

\* A property name that is a canonical array index ("0", "7", "11", not "01").
IsArrayIndex(k) ==
  /\ Len(k) >= 1
  /\ Len(k) <= 9
  /\ \A i \in 1..Len(k) : DigitVal(k[i]) >= 0
  /\ (Len(k) = 1 \/ k[1] # "0")

RECURSIVE SortByNum(_)
SortByNum(ks) ==
  IF ks = <<>> THEN <<>>
  ELSE LET i == CHOOSE i \in 1..Len(ks) : \A j \in 1..Len(ks) : NumVal(ks[i]) <= NumVal(ks[j])
       IN  <<ks[i]>> \o SortByNum(SubSeq(ks, 1, i - 1) \o SubSeq(ks, i + 1, Len(ks)))

\* Object.keys on property names given in creation order: the array indices
\* in ascending numeric order, then the other names in creation order.
ObjectKeys(ks) ==
  LET isIdx(k) == IsArrayIndex(k)
      notIdx(k) == ~IsArrayIndex(k)
  IN  SortByNum(SelectSeq(ks, isIdx)) \o SelectSeq(ks, notIdx)

\* -------------------------------------------------- sockets and the table

\* A socket is a sequence of [char, node] in creation order.
SocketHas(socket, char) == \E i \in 1..Len(socket) : socket[i].char = char

SocketGet(socket, char) ==
  (CHOOSE e \in { socket[i] : i \in 1..Len(socket) } : e.char = char).node

\* node.socket[char] = id on a socket without char.
SocketPut(socket, char, id) == Append(socket, [char |-> char, node |-> id])

\* A delete that leaves the socket as it was.
SocketDeleteKeepsEdge(socket, char) == socket

\* delete socket[char]
SocketDelete(socket, char) == LET keep(e) == e.char # char IN SelectSeq(socket, keep)

\* Object.keys(node.socket)
SocketKeys(socket) ==
  LET ks == ObjectKeys([i \in 1..Len(socket) |-> <<socket[i].char>>])
  IN  [i \in 1..Len(ks) |-> ks[i][1]]

\* The table is a sequence of [key, node] in creation order.
TableHas(t, key) == \E i \in 1..Len(t) : t[i].key = key

\* this.table[query]: the own property, else what Object.prototype gives
\* (Some(object) or Undefined).
TableGet(t, query) ==
  IF TableHas(t, query)
  THEN Some((CHOOSE e \in { t[i] : i \in 1..Len(t) } : e.key = query).node)
  ELSE IF query \in ObjectPrototypeKeys THEN Some(Inherited) ELSE Undefined

\* this.table[key] = node: an own property keeps its place, a new one is last.
TablePut(t, key, id) ==
  IF TableHas(t, key)
  THEN [i \in 1..Len(t) |-> IF t[i].key = key THEN [key |-> key, node |-> id] ELSE t[i]]
  ELSE Append(t, [key |-> key, node |-> id])

\* A delete that leaves the table as it was.
TableDeleteKeepsEntry(t, query) == t

\* delete this.table[query]
TableDelete(t, query) == LET keep(e) == e.key # query IN SelectSeq(t, keep)

\* Object.keys(this.table)
TableKeys(t) == ObjectKeys([i \in 1..Len(t) |-> t[i].key])

\* ------------------------------------------------------------------ Node

\* new Node(): no children, no name, no value.
NewNode == [socket |-> <<>>, name |-> Undefined, value |-> Undefined]

\* The identity of a node created for `path`: the first one not in use.
FreshId(h, path) ==
  LET gen == CHOOSE g \in 0..Cardinality(DOMAIN h) :
               /\ [path |-> path, gen |-> g] \notin DOMAIN h
               /\ \A f \in 0..(g - 1) : [path |-> path, gen |-> f] \in DOMAIN h
  IN  [path |-> path, gen |-> gen]

\* A store is [rootSocket, heap, table]; heap maps node identities to Nodes.
EmptyHeap == [id \in {} |-> NewNode]

HeapPut(h, id, node) == [x \in DOMAIN h \cup {id} |-> IF x = id THEN node ELSE h[x]]

\* node.socket, where node may be the pseudo node over rootSocket.
SocketOf(st, node) == IF node = Root THEN st.rootSocket ELSE st.heap[node].socket

\* node.name
NameOf(st, node) == IF node = Root THEN Undefined ELSE st.heap[node].name

\* Assigning node.socket's contents, the pseudo node writing through to rootSocket.
WithSocket(st, node, socket) ==
  IF node = Root
  THEN [st EXCEPT !.rootSocket = socket]
  ELSE [st EXCEPT !.heap = [@ EXCEPT ![node].socket = socket]]

\* ------------------------------------------------------- garbage collection

Children(h, id) ==
  IF id \in DOMAIN h THEN { h[id].socket[i].node : i \in 1..Len(h[id].socket) } ELSE {}

RECURSIVE Reachable(_, _)
Reachable(h, ids) ==
  LET next == ids \cup UNION { Children(h, id) : id \in ids }
  IN  IF next = ids THEN ids ELSE Reachable(h, next)

\* Nodes no reference leads to any more (from rootSocket or from the table)
\* are gone: dropping the last reference to an object frees it.
Collect(st) ==
  LET held == { st.rootSocket[i].node : i \in 1..Len(st.rootSocket) }
                \cup { st.table[i].node : i \in 1..Len(st.table) }
      live == Reachable(st.heap, held) \cap DOMAIN st.heap
  IN  [st EXCEPT !.heap = [id \in live |-> st.heap[id]]]

\* ------------------------------------------------------------ operations

\* constructor, and reset(): an empty root socket and an empty table.
reset == [rootSocket |-> <<>>, heap |-> EmptyHeap, table |-> <<>>]

\* _getClosestNode(query): the node the characters of query lead to from the
\* root, Undefined when an edge is missing.
RECURSIVE getClosestNodeLoop(_, _, _, _)
getClosestNodeLoop(st, node, query, n) ==
  IF n > Len(query) THEN Some(node)
  ELSE IF ~SocketHas(SocketOf(st, node), query[n]) THEN Undefined
  ELSE getClosestNodeLoop(st, SocketGet(SocketOf(st, node), query[n]), query, n + 1)

getClosestNode(st, query) == getClosestNodeLoop(st, Root, query, 1)

\* get(query): node && node.value
get(st, query) ==
  LET node == TableGet(st.table, query)
  IN  IF node = Undefined THEN Undefined
      ELSE IF node[1] = Inherited THEN Undefined
      ELSE st.heap[node[1]].value

\* The loop of set: follow the edge of each character, creating the missing
\* nodes; yields the store and the node reached.
RECURSIVE setLoop(_, _, _, _)
setLoop(st, node, key, n) ==
  IF n > Len(key) THEN [st |-> st, node |-> node]
  ELSE LET char == key[n]
           socket == SocketOf(st, node)
       IN  IF ~SocketHas(socket, char)
           THEN LET id == FreshId(st.heap, SubSeq(key, 1, n))
                    made == [st EXCEPT !.heap = HeapPut(@, id, NewNode)]
                IN  setLoop(WithSocket(made, node, SocketPut(socket, char, id)), id, key, n + 1)
           ELSE setLoop(st, SocketGet(socket, char), key, n + 1)

\* set that returns early for a key the table already has.
setKeepsOldValue(st, key, value) ==
  IF ~TruthyString(Some(key)) \/ TableHas(st.table, key) THEN st
  ELSE LET w == setLoop(st, Root, key, 1)
       IN  [w.st EXCEPT !.heap = [@ EXCEPT ![w.node].name = Some(key),
                                           ![w.node].value = Some(value)],
                        !.table = TablePut(@, key, w.node)]

\* set making a new node for the last character even where one is there.
setRenewsLastNode(st, key, value) ==
  IF ~TruthyString(Some(key)) THEN st
  ELSE LET w == setLoop(st, Root, SubSeq(key, 1, Len(key) - 1), 1)
           id == FreshId(w.st.heap, key)
           made == [w.st EXCEPT !.heap = HeapPut(@, id, NewNode)]
           socket == SocketOf(made, w.node)
           linked == WithSocket(made, w.node,
                                SocketPut(SocketDelete(socket, key[Len(key)]), key[Len(key)], id))
       IN  Collect([linked EXCEPT !.heap = [@ EXCEPT ![id].name = Some(key),
                                                       ![id].value = Some(value)],
                                   !.table = TablePut(@, key, id)])

\* set without the check of the key.
setTakesAnyKey(st, key, value) ==
  LET w == setLoop(st, Root, key, 1)
  IN  [w.st EXCEPT !.heap = [id \in DOMAIN @ |->
                               IF id = w.node
                               THEN [@[id] EXCEPT !.name = Some(key), !.value = Some(value)]
                               ELSE @[id]],
                   !.table = TablePut(@, key, w.node)]

\* set(key, value)
set(st, key, value) ==
  IF ~TruthyString(Some(key)) THEN st
  ELSE LET w == setLoop(st, Root, key, 1)
       IN  [w.st EXCEPT !.heap = [@ EXCEPT ![w.node].name = Some(key),
                                           ![w.node].value = Some(value)],
                        !.table = TablePut(@, key, w.node)]

\* The loop of remove keeping the first anchor it meets, not the last.
RECURSIVE removeLoopFirstAnchor(_, _, _, _, _)
removeLoopFirstAnchor(st, node, query, n, point) ==
  IF n > Len(query) THEN [found |-> TRUE, point |-> point]
  ELSE LET char == query[n]
           socket == SocketOf(st, node)
       IN  IF ~SocketHas(socket, char) THEN [found |-> FALSE, point |-> point]
           ELSE removeLoopFirstAnchor(st, SocketGet(socket, char), query, n + 1,
                           IF point = Undefined
                              /\ (TruthyString(NameOf(st, node)) \/ Len(socket) >= 2)
                           THEN Some([node |-> node, char |-> char])
                           ELSE point)

\* The loop of remove taking only a node with two children for an anchor.
RECURSIVE removeLoopIgnoresName(_, _, _, _, _)
removeLoopIgnoresName(st, node, query, n, point) ==
  IF n > Len(query) THEN [found |-> TRUE, point |-> point]
  ELSE LET char == query[n]
           socket == SocketOf(st, node)
       IN  IF ~SocketHas(socket, char) THEN [found |-> FALSE, point |-> point]
           ELSE removeLoopIgnoresName(st, SocketGet(socket, char), query, n + 1,
                           IF Len(socket) >= 2
                           THEN Some([node |-> node, char |-> char])
                           ELSE point)

\* The loop of remove: the last node on the way that has a name or at least
\* two children, with the character left by; found is FALSE on a missing edge.
RECURSIVE removeLoop(_, _, _, _, _)
removeLoop(st, node, query, n, point) ==
  IF n > Len(query) THEN [found |-> TRUE, point |-> point]
  ELSE LET char == query[n]
           socket == SocketOf(st, node)
       IN  IF ~SocketHas(socket, char) THEN [found |-> FALSE, point |-> point]
           ELSE removeLoop(st, SocketGet(socket, char), query, n + 1,
                           IF TruthyString(NameOf(st, node)) \/ Len(socket) >= 2
                           THEN Some([node |-> node, char |-> char])
                           ELSE point)

\* remove that returns where it should reset.
removeBranchNoReset(st, query) ==
  LET end == TableGet(st.table, query)
  IN  IF end = Undefined THEN "absent"
      ELSE IF end[1] = Inherited THEN "TypeError"
      ELSE IF Len(st.heap[end[1]].socket) > 0 THEN "clear"
      ELSE LET w == removeLoop(st, Root, query, 1, Undefined)
           IN  IF ~w.found THEN "missing edge"
               ELSE IF w.point = Undefined THEN "missing edge"
               ELSE "prune"

\* remove that only clears a node with two or more children.
removeBranchClearNeedsTwo(st, query) ==
  LET end == TableGet(st.table, query)
  IN  IF end = Undefined THEN "absent"
      ELSE IF end[1] = Inherited THEN "TypeError"
      ELSE IF Len(st.heap[end[1]].socket) > 1 THEN "clear"
      ELSE LET w == removeLoop(st, Root, query, 1, Undefined)
           IN  IF ~w.found THEN "missing edge"
               ELSE IF w.point = Undefined THEN "reset"
               ELSE "prune"

\* Which way remove(query) goes.
removeBranch(st, query) ==
  LET end == TableGet(st.table, query)
  IN  IF end = Undefined THEN "absent"
      ELSE IF end[1] = Inherited THEN "TypeError"
      ELSE IF Len(st.heap[end[1]].socket) > 0 THEN "clear"
      ELSE LET w == removeLoop(st, Root, query, 1, Undefined)
           IN  IF ~w.found THEN "missing edge"
               ELSE IF w.point = Undefined THEN "reset"
               ELSE "prune"

\* remove(query)
remove(st, query) ==
  LET branch == removeBranch(st, query)
      end == TableGet(st.table, query)[1]
      point == removeLoop(st, Root, query, 1, Undefined).point[1]
  IN  CASE branch = "clear" ->
             [st EXCEPT !.heap = [@ EXCEPT ![end].name = Undefined, ![end].value = Undefined],
                        !.table = TableDelete(@, query)]
        [] branch = "reset" -> reset
        [] branch = "prune" ->
             Collect([WithSocket(st, point.node, SocketDelete(SocketOf(st, point.node), point.char))
                        EXCEPT !.table = TableDelete(@, query)])
        [] OTHER -> st

\* The loop of match pushing the siblings but the last.
RECURSIVE matchLoopSkipsLastSibling(_, _, _, _, _)
matchLoopSkipsLastSibling(st, node, points, result, count) ==
  IF TruthyNumber(count) /\ Len(result) >= count[1] THEN result
  ELSE LET socket == st.heap[node].socket
           sockets == SocketKeys(socket)
           socketCount == Len(sockets)
           pushed == IF TruthyString(st.heap[node].name)
                     THEN Append(result, st.heap[node].value)
                     ELSE result
       IN  IF socketCount >= 2
           THEN matchLoopSkipsLastSibling(st, SocketGet(socket, sockets[1]),
                          points \o [n \in 1..(socketCount - 2) |-> SocketGet(socket, sockets[n + 1])],
                          pushed, count)
           ELSE IF socketCount = 0
           THEN IF points = <<>> THEN pushed
                ELSE matchLoopSkipsLastSibling(st, points[Len(points)],
                               SubSeq(points, 1, Len(points) - 1), pushed, count)
           ELSE matchLoopSkipsLastSibling(st, SocketGet(socket, sockets[1]), points, pushed, count)

\* The loop of match stopping one result late.
RECURSIVE matchLoopStopsLate(_, _, _, _, _)
matchLoopStopsLate(st, node, points, result, count) ==
  IF TruthyNumber(count) /\ Len(result) > count[1] THEN result
  ELSE LET socket == st.heap[node].socket
           sockets == SocketKeys(socket)
           socketCount == Len(sockets)
           pushed == IF TruthyString(st.heap[node].name)
                     THEN Append(result, st.heap[node].value)
                     ELSE result
       IN  IF socketCount >= 2
           THEN matchLoopStopsLate(st, SocketGet(socket, sockets[1]),
                          points \o [n \in 1..(socketCount - 1) |-> SocketGet(socket, sockets[n + 1])],
                          pushed, count)
           ELSE IF socketCount = 0
           THEN IF points = <<>> THEN pushed
                ELSE matchLoopStopsLate(st, points[Len(points)],
                               SubSeq(points, 1, Len(points) - 1), pushed, count)
           ELSE matchLoopStopsLate(st, SocketGet(socket, sockets[1]), points, pushed, count)

\* matchStep taking the oldest pending node instead of the newest.
matchStepPopsOldest(st, node, points, result, count) ==
  IF TruthyNumber(count) /\ Len(result) >= count[1]
  THEN [done |-> TRUE, visits |-> FALSE, node |-> node, points |-> points, result |-> result]
  ELSE LET socket == st.heap[node].socket
           sockets == SocketKeys(socket)
           socketCount == Len(sockets)
           pushed == IF TruthyString(st.heap[node].name)
                     THEN Append(result, st.heap[node].value)
                     ELSE result
       IN  IF socketCount >= 2
           THEN [done |-> FALSE, visits |-> TRUE, node |-> SocketGet(socket, sockets[1]),
                 points |-> points \o [n \in 1..(socketCount - 1) |->
                                         SocketGet(socket, sockets[n + 1])],
                 result |-> pushed]
           ELSE IF socketCount = 0
           THEN IF points = <<>>
                THEN [done |-> TRUE, visits |-> TRUE, node |-> node, points |-> points,
                      result |-> pushed]
                ELSE [done |-> FALSE, visits |-> TRUE, node |-> points[1],
                      points |-> SubSeq(points, 2, Len(points)), result |-> pushed]
           ELSE [done |-> FALSE, visits |-> TRUE, node |-> SocketGet(socket, sockets[1]),
                 points |-> points, result |-> pushed]

\* Object.assign({}, value): a new object with the own fields of value.
ShallowCopy(value) == [copyOf |-> value]

\* forEach starting its loop at the second key.
forEachSkipsFirst(st, callback) ==
  IF callback = Undefined THEN <<>>
  ELSE LET keys == TableKeys(st.table)
           iterableTable == [i \in 1..Len(keys) |->
                               ShallowCopy(st.heap[TableGet(st.table, keys[i])[1]].value)]
       IN  [i \in 1..(Len(keys) - 1) |-> [value |-> iterableTable[i + 1], key |-> keys[i + 1]]]

\* forEach(callback): the calls of the callback, in order, each with the
\* value and the key it is given.
forEach(st, callback) ==
  IF callback = Undefined THEN <<>>
  ELSE LET keys == TableKeys(st.table)
           iterableTable == [i \in 1..Len(keys) |->
                               ShallowCopy(st.heap[TableGet(st.table, keys[i])[1]].value)]
       IN  [i \in 1..Len(keys) |-> [value |-> iterableTable[i], key |-> keys[i]]]

\* matchStep reading the newest pending node without taking it off.
matchStepKeepsPending(st, node, points, result, count) ==
  IF TruthyNumber(count) /\ Len(result) >= count[1]
  THEN [done |-> TRUE, visits |-> FALSE, node |-> node, points |-> points, result |-> result]
  ELSE LET socket == st.heap[node].socket
           sockets == SocketKeys(socket)
           socketCount == Len(sockets)
           pushed == IF TruthyString(st.heap[node].name)
                     THEN Append(result, st.heap[node].value)
                     ELSE result
       IN  IF socketCount >= 2
           THEN [done |-> FALSE, visits |-> TRUE, node |-> SocketGet(socket, sockets[1]),
                 points |-> points \o [n \in 1..(socketCount - 1) |->
                                         SocketGet(socket, sockets[n + 1])],
                 result |-> pushed]
           ELSE IF socketCount = 0
           THEN IF points = <<>>
                THEN [done |-> TRUE, visits |-> TRUE, node |-> node, points |-> points,
                      result |-> pushed]
                ELSE [done |-> FALSE, visits |-> TRUE, node |-> points[Len(points)],
                      points |-> points, result |-> pushed]
           ELSE [done |-> FALSE, visits |-> TRUE, node |-> SocketGet(socket, sockets[1]),
                 points |-> points, result |-> pushed]

\* matchStep collecting no value at a node with two or more children.
matchStepSkipsForkValue(st, node, points, result, count) ==
  IF TruthyNumber(count) /\ Len(result) >= count[1]
  THEN [done |-> TRUE, visits |-> FALSE, node |-> node, points |-> points, result |-> result]
  ELSE LET socket == st.heap[node].socket
           sockets == SocketKeys(socket)
           socketCount == Len(sockets)
           pushed == IF TruthyString(st.heap[node].name)
                     THEN Append(result, st.heap[node].value)
                     ELSE result
       IN  IF socketCount >= 2
           THEN [done |-> FALSE, visits |-> TRUE, node |-> SocketGet(socket, sockets[1]),
                 points |-> points \o [n \in 1..(socketCount - 1) |->
                                         SocketGet(socket, sockets[n + 1])],
                 result |-> result]
           ELSE IF socketCount = 0
           THEN IF points = <<>>
                THEN [done |-> TRUE, visits |-> TRUE, node |-> node, points |-> points,
                      result |-> pushed]
                ELSE [done |-> FALSE, visits |-> TRUE, node |-> points[Len(points)],
                      points |-> SubSeq(points, 1, Len(points) - 1), result |-> pushed]
           ELSE [done |-> FALSE, visits |-> TRUE, node |-> SocketGet(socket, sockets[1]),
                 points |-> points, result |-> pushed]

\* One pass of the loop of match at `node` with the pending stack `points`:
\* where it goes next, or done when it breaks.
matchStep(st, node, points, result, count) ==
  IF TruthyNumber(count) /\ Len(result) >= count[1]
  THEN [done |-> TRUE, visits |-> FALSE, node |-> node, points |-> points, result |-> result]
  ELSE LET socket == st.heap[node].socket
           sockets == SocketKeys(socket)
           socketCount == Len(sockets)
           pushed == IF TruthyString(st.heap[node].name)
                     THEN Append(result, st.heap[node].value)
                     ELSE result
       IN  IF socketCount >= 2
           THEN [done |-> FALSE, visits |-> TRUE, node |-> SocketGet(socket, sockets[1]),
                 points |-> points \o [n \in 1..(socketCount - 1) |->
                                         SocketGet(socket, sockets[n + 1])],
                 result |-> pushed]
           ELSE IF socketCount = 0
           THEN IF points = <<>>
                THEN [done |-> TRUE, visits |-> TRUE, node |-> node, points |-> points,
                      result |-> pushed]
                ELSE [done |-> FALSE, visits |-> TRUE, node |-> points[Len(points)],
                      points |-> SubSeq(points, 1, Len(points) - 1), result |-> pushed]
           ELSE [done |-> FALSE, visits |-> TRUE, node |-> SocketGet(socket, sockets[1]),
                 points |-> points, result |-> pushed]

\* The loop of match, from `node` with the pending stack `points`.
RECURSIVE matchLoop(_, _, _, _, _)
matchLoop(st, node, points, result, count) ==
  LET s == matchStep(st, node, points, result, count)
  IN  IF s.done THEN s.result ELSE matchLoop(st, s.node, s.points, s.result, count)

\* The loop of match run for at most `passes` passes: the nodes it was at, in
\* order, and whether it has left the loop.
RECURSIVE matchPasses(_, _, _, _, _, _, _)
matchPasses(st, node, points, result, count, visited, passes) ==
  IF passes = 0 THEN [done |-> FALSE, visited |-> visited, result |-> result]
  ELSE LET s == matchStep(st, node, points, result, count)
           seen == IF s.visits THEN Append(visited, node) ELSE visited
       IN  IF s.done THEN [done |-> TRUE, visited |-> seen, result |-> s.result]
           ELSE matchPasses(st, s.node, s.points, s.result, count, seen, passes - 1)

\* match(query, count) stopped after `passes` passes of its loop.
matchWithin(st, query, count, passes) ==
  IF ~TruthyString(Some(query)) THEN [done |-> TRUE, visited |-> <<>>, result |-> <<>>]
  ELSE LET node == getClosestNode(st, query)
       IN  IF node = Undefined THEN [done |-> TRUE, visited |-> <<>>, result |-> <<>>]
           ELSE matchPasses(st, node[1], <<>>, <<>>, count, <<>>, passes)

\* match(query, count): the values (each Some(v) or Undefined) collected.
match(st, query, count) ==
  IF ~TruthyString(Some(query)) THEN <<>>
  ELSE LET closestNode == getClosestNode(st, query)
       IN  IF closestNode = Undefined THEN <<>>
           ELSE matchLoop(st, closestNode[1], <<>>, <<>>, count)

\* ---------------------------------------------------------- state machine

store == [rootSocket |-> rootSocket, heap |-> heap, table |-> table]

Becomes(st) ==
  /\ rootSocket' = st.rootSocket
  /\ heap' = st.heap
  /\ table' = st.table

Init ==
  /\ rootSocket = <<>>
  /\ heap = EmptyHeap
  /\ table = <<>>
  /\ contents = {}
  /\ inserted = <<>>
  /\ last = [op |-> "new", branch |-> "none"]

\* store.set(key, value)
Set(key, value) ==
  /\ key = <<>> \/ TableHas(table, key) \/ Len(table) < MaxKeys
  /\ Becomes(set(store, key, value))
  /\ contents' = IF key = <<>> THEN contents
                 ELSE { p \in contents : p[1] # key } \cup { <<key, value>> }
  /\ inserted' = IF key = <<>> \/ \E i \in 1..Len(inserted) : inserted[i] = key
                 THEN inserted
                 ELSE Append(inserted, key)
  /\ last' = [op |-> "set",
              branch |-> IF key = <<>> THEN "ignored"
                         ELSE IF TableHas(table, key) THEN "overwrite" ELSE "insert"]

\* store.remove(query); a TypeError thrown leaves the store as it was.
Remove(query) ==
  /\ Becomes(remove(store, query))
  /\ contents' = { p \in contents : p[1] # query }
  /\ inserted' = LET other(k) == k # query IN SelectSeq(inserted, other)
  /\ last' = [op |-> "remove", branch |-> removeBranch(store, query)]

\* store.reset()
Reset ==
  /\ Becomes(reset)
  /\ contents' = {}
  /\ inserted' = <<>>
  /\ last' = [op |-> "reset", branch |-> "none"]

Next ==
  \/ \E key \in Keys, value \in Values : Set(key, value)
  \/ \E query \in Keys : Remove(query)
  \/ Reset

Spec == Init /\ [][Next]_vars

\* Only set is called, with non-empty keys.
SetNext == \E key \in Keys \ { <<>> }, value \in Values : Set(key, value)

SetSpec == Init /\ [][SetNext]_vars

\* The store under keys that fork below a node a query can reach: "a" gets up
\* to four children, two of them digits, and "ab" gets two.
ForkKeys == { <<"a">>, <<"a", "b">>, <<"a", "c">>, <<"a", "1">>, <<"a", "2">>,
              <<"a", "b", "c">>, <<"a", "b", "d">> }

ForkNext ==
  \/ \E key \in ForkKeys, value \in Values : Set(key, value)
  \/ \E query \in ForkKeys : Remove(query)
  \/ Reset

ForkSpec == Init /\ [][ForkNext]_vars

\* The store under keys that are and are not array indices: "2" and "10" are,
\* "01" and the letters are not.
IndexKeys == { <<"2">>, <<"1", "0">>, <<"0", "1">>, <<"a">>, <<"b">>, <<"a", "b">> }

IndexNext ==
  \/ \E key \in IndexKeys, value \in Values : Set(key, value)
  \/ \E query \in IndexKeys : Remove(query)
  \/ Reset

IndexSpec == Init /\ [][IndexNext]_vars

\* ----------------------------------------------------------- observations

\* The keys the caller has stored.
StoredKeys == { p[1] : p \in contents }

ValueOf(key) == (CHOOSE p \in contents : p[1] = key)[2]

\* The queries tried: every key, a proper prefix of the longest, and two
\* strings no key starts with.
Queries == (Keys \ { <<>> }) \cup { <<"v">>, <<"c">>, <<"a", "c">> }

\* How often x occurs in the sequence s.
Count(s, x) == Cardinality({ i \in 1..Len(s) : s[i] = x })

\* match(query) without a count.
matchAll(st, query) == match(st, query, Undefined)

\* The nodes below `node`, each with the string that leads to it from the root.
RECURSIVE NodesBelow(_, _, _)
NodesBelow(st, node, path) ==
  LET socket == SocketOf(st, node)
  IN  UNION { { [path |-> Append(path, socket[i].char), node |-> socket[i].node] }
                \cup NodesBelow(st, socket[i].node, Append(path, socket[i].char))
              : i \in 1..Len(socket) }

\* Every node of the tree with its path.
TreeNodes(st) == NodesBelow(st, Root, <<>>)

\* The strings that lead from the root to a node.
TreePaths(st) == { e.path : e \in TreeNodes(st) }

\* One element taken out of the sequence s, the others in their order.
Without(s, i) == SubSeq(s, 1, i - 1) \o SubSeq(s, i + 1, Len(s))

\* ------------------------------------------------------------------ claims

\* C1: after any sequence of set, remove and reset, match(prefix) for a
\* non-empty prefix returns the value of every stored key that starts with
\* prefix, each exactly once, and no other value.
C1_MatchReturnsStoredWithPrefix ==
  \A q \in Queries :
    LET result == matchAll(store, q)
        hits == { p \in contents : IsPrefix(q, p[1]) }
    IN  /\ Len(result) = Cardinality(hits)
        /\ \A v \in Values : Count(result, Some(v)) = Cardinality({ p \in hits : p[2] = v })

\* A remove has pruned a branch and two keys are left, both starting with
\* "a" and one with "ab".
C1_Witness ==
  /\ last.op = "remove"
  /\ last.branch = "prune"
  /\ Len(matchAll(store, <<"a">>)) = 2
  /\ Len(matchAll(store, <<"a", "b">>)) = 1

C5_NodesAreThePrefixesOfStoredKeys ==
  \A S \in TreePaths(store) \cup Queries :
    LET node == getClosestNode(store, S)
    IN  /\ node # Undefined <=> \E k \in StoredKeys : IsPrefix(S, k)
        /\ node # Undefined => (TruthyString(heap[node[1]].name) <=> S \in StoredKeys)

\* A prune has left a node that is no key itself but leads to one.
C5_Witness ==
  /\ last.op = "remove"
  /\ last.branch = "prune"
  /\ <<"a">> \notin StoredKeys
  /\ StoredKeys = { <<"a", "b">>, <<"b">> }

\* C6: when exactly one key is stored, deleting it leaves the store as reset()
\* does: no root children, no table entries, get of the key absent and match
\* of the key empty.
C6_RemoveOfOnlyKeyResets ==
  [][\A k \in StoredKeys :
       (StoredKeys = {k} /\ last'.op = "remove" /\ StoredKeys' = {}) =>
         /\ store' = reset
         /\ get(store', k) = Undefined
         /\ matchAll(store', k) = <<>>
    ]_vars

\* The only key was removed and remove took its reset branch.
C6_Witness ==
  /\ last.op = "remove"
  /\ last.branch = "reset"
  /\ StoredKeys = {}

\* C7: deleting a stored key whose node has a child removes no node and no
\* edge: it clears that node's name and value and removes its table entry.
C7_RemoveOfInnerKeyKeepsTree ==
  [][\A k \in StoredKeys :
       LET end == TableGet(table, k)[1]
       IN  (/\ last'.op = "remove"
            /\ k \notin StoredKeys'
            /\ TableHas(table, k)
            /\ Len(heap[end].socket) >= 1) =>
             /\ rootSocket' = rootSocket
             /\ DOMAIN heap' = DOMAIN heap
             /\ \A id \in DOMAIN heap :
                  /\ heap'[id].socket = heap[id].socket
                  /\ id # end => heap'[id] = heap[id]
             /\ heap'[end].name = Undefined
             /\ heap'[end].value = Undefined
             /\ table' = TableDelete(table, k)
             /\ StoredKeys' = StoredKeys \ {k}
             /\ \A p \in contents : p[1] # k => get(store', p[1]) = Some(p[2])
    ]_vars

\* "a" was removed while "ab" and "abc" are stored.
C7_Witness ==
  /\ last.op = "remove"
  /\ last.branch = "clear"
  /\ StoredKeys = { <<"a", "b">>, <<"a", "b", "c">> }

\* The length of the longest proper prefix of k whose node is terminal or
\* has at least two children; 0 (the root) when there is none.
AnchorDepth(st, k) ==
  LET anchors == { d \in 1..(Len(k) - 1) :
                     LET node == getClosestNode(st, SubSeq(k, 1, d))[1]
                     IN  TruthyString(st.heap[node].name) \/ Len(st.heap[node].socket) >= 2 }
  IN  IF anchors = {} THEN 0 ELSE CHOOSE d \in anchors : \A e \in anchors : e <= d

\* C8: deleting a stored key whose node has no children removes exactly the
\* nodes on the key's path below the nearest ancestor that is terminal or has
\* two or more children; every other node keeps its name, value and edges,
\* except that the ancestor loses the edge to the removed chain.
C8_RemoveOfLeafPrunesToAnchor ==
  [][\A k \in StoredKeys :
       LET end == TableGet(table, k)[1]
           depth == AnchorDepth(store, k)
           anchor == getClosestNode(store, SubSeq(k, 1, depth))[1]
           gone == { e.node : e \in { x \in TreeNodes(store) :
                                        IsPrefix(x.path, k) /\ Len(x.path) > depth } }
       IN  (/\ last'.op = "remove"
            /\ k \notin StoredKeys'
            /\ TableHas(table, k)
            /\ Len(heap[end].socket) = 0) =>
             /\ DOMAIN heap' = DOMAIN heap \ gone
             /\ \A id \in DOMAIN heap' : id # anchor => heap'[id] = heap[id]
             /\ anchor # Root => heap'[anchor] =
                  [heap[anchor] EXCEPT !.socket = SocketDelete(@, k[depth + 1])]
             /\ rootSocket' = IF anchor = Root THEN SocketDelete(rootSocket, k[1])
                              ELSE rootSocket
             /\ table' = TableDelete(table, k)
    ]_vars

\* "abc" was pruned below the fork at "a", which still leads to "a1", and the
\* sibling "b" of the root is there.
C8_Witness ==
  /\ last.op = "remove"
  /\ last.branch = "prune"
  /\ StoredKeys = { <<"a", "1">>, <<"b">> }
  /\ <<"a", "b">> \notin TreePaths(store)

\* C9: deleting a key that is not in the table (never stored, deleted before,
\* or the empty string) signals no error and leaves the root tree and the
\* table unchanged.
C9_RemoveOfAbsentKeyIsNoOp ==
  [][(last'.op = "remove" /\ StoredKeys' = StoredKeys) =>
       /\ last'.branch # "TypeError"
       /\ store' = store
    ]_vars

\* C9 for the keys Object.prototype does not name: deleting one that is not
\* in the table leaves the store unchanged and throws nothing.
C9_RemoveOfAbsentOrdinaryKeyIsNoOp ==
  [][(last'.op = "remove" /\ last'.branch = "absent") =>
       /\ StoredKeys' = StoredKeys
       /\ store' = store
    ]_vars

\* What match under the counts `limits` has to do with match without one.
LimitedWithin(limits) ==
  \A q \in Queries \cup { <<>> } :
    LET all == matchAll(store, q)
    IN  \A limit \in limits :
          LET limited == match(store, q, Some(limit))
          IN  /\ Len(limited) <= limit
              /\ \A i \in 1..Len(limited) : \E j \in 1..Len(all) : all[j] = limited[i]

\* C10 as stated: for every prefix and every non-negative count, match
\* returns at most count values, each of them a value match returns without
\* a count.
C10_MatchRespectsAnyLimit == LimitedWithin(0..MaxLimit)

\* C10, amended: for every prefix and every count of 1 or more, match returns
\* at most count values, each of them a value match returns without a count.
C10_MatchRespectsPositiveLimit == LimitedWithin(1..MaxLimit)

\* Three keys start with "a" and a count of 2 cuts the result short.
C10_Witness ==
  /\ Len(matchAll(store, <<"a">>)) = 3
  /\ Len(match(store, <<"a">>, Some(2))) = 2
  /\ Len(match(store, <<"a">>, Some(1))) = 1

\* ------------------------------------------------------------------- C11

\* The queries tried on the forking keys.
ForkQueries == { <<"a">>, <<"a", "b">>, <<"a", "b", "c">>, <<"a", "1">> }

\* The characters of a socket in the order their edges were created.
InsertionOrder(socket) == [i \in 1..Len(socket) |-> socket[i].char]

Digits == <<"0", "1", "2", "3", "4", "5", "6", "7", "8", "9">>

\* The characters of a socket, the digits first in ascending order and then
\* the others in the order their edges were created.
DigitsFirstOrder(socket) ==
  LET has(c) == \E i \in 1..Len(socket) : socket[i].char = c
      other(c) == \A d \in 1..Len(Digits) : Digits[d] # c
  IN  SelectSeq(Digits, has) \o SelectSeq(InsertionOrder(socket), other)

Reverse(s) == [i \in 1..Len(s) |-> s[Len(s) + 1 - i]]

\* The values under `node` in pre-order: the node, then the subtree of its
\* first child, then the subtrees of the other children from the last to the
\* second; the children are taken in insertion order or digits first.
RECURSIVE PreOrder(_, _, _)
PreOrder(st, node, digitsFirst) ==
  LET socket == st.heap[node].socket
      chars == IF digitsFirst THEN DigitsFirstOrder(socket) ELSE InsertionOrder(socket)
      child(c) == (CHOOSE i \in 1..Len(socket) : socket[i].char = c)
      visit == IF chars = <<>> THEN <<>> ELSE <<chars[1]>> \o Reverse(Tail(chars))
      RECURSIVE below(_)
      below(n) == IF n > Len(visit) THEN <<>>
                  ELSE PreOrder(st, socket[child(visit[n])].node, digitsFirst) \o below(n + 1)
  IN  (IF st.heap[node].name # Undefined THEN <<st.heap[node].value>> ELSE <<>>) \o below(1)

\* The pre-order of the values under the node of `query`.
PreOrderAt(st, query, digitsFirst) ==
  LET node == getClosestNode(st, query)
  IN  IF node = Undefined THEN <<>> ELSE PreOrder(st, node[1], digitsFirst)

\* C11 as stated: match returns the values under the query's node in the
\* order of a traversal that at a fork goes to the first child in the node's
\* child-insertion order and later takes the pending children last pushed
\* first.
C11_MatchOrderFollowsInsertionOrder ==
  \A query \in ForkQueries : matchAll(store, query) = PreOrderAt(store, query, FALSE)

\* C11 amended: match returns the values under the query's node in the order
\* of a traversal that at a fork goes to the first child and later takes the
\* pending children last pushed first, the children of a node being ordered
\* digits first (ascending) and then by insertion.
C11_MatchOrderFollowsObjectKeysOrder ==
  \A query \in ForkQueries : matchAll(store, query) = PreOrderAt(store, query, TRUE)

\* A node with three children, a digit among them that was not inserted
\* first, gives its three values in the amended order.
C11_Witness ==
  /\ TableHas(table, <<"a", "b">>) /\ TableHas(table, <<"a", "c">>)
  /\ TableHas(table, <<"a", "1">>)
  /\ inserted[Len(inserted)] = <<"a", "1">>
  /\ last.op = "set"
  /\ Len(matchAll(store, <<"a">>)) = 3
  /\ matchAll(store, <<"a">>) = PreOrderAt(store, <<"a">>, TRUE)
  /\ matchAll(store, <<"a">>) # PreOrderAt(store, <<"a">>, FALSE)

\* ------------------------------------------------------------------- C12

\* The counts tried: none, 0 and every count up to MaxLimit.
Counts == { Undefined } \cup { Some(n) : n \in 0..MaxLimit }

\* C12: set with the empty key leaves the root socket, the nodes and the
\* table as they were, and match with the empty query returns the empty
\* sequence in every state, whatever the count.
C12_EmptyKeyAndEmptyQueryDoNothing ==
  [][/\ (last'.op = "set" /\ last'.branch = "ignored")
          => (rootSocket' = rootSocket /\ heap' = heap /\ table' = table)
     /\ \A count \in Counts : /\ match(store, <<>>, count) = <<>>
                              /\ match(store', <<>>, count) = <<>>]_vars

\* set with the empty key has just been called on a store of two keys, and
\* match with the empty query gives nothing although a key would match.
C12_Witness ==
  /\ last = [op |-> "set", branch |-> "ignored"]
  /\ Len(table) >= 2
  /\ match(store, <<>>, Undefined) = <<>>
  /\ get(store, <<>>) = Undefined
  /\ \E query \in Queries : matchAll(store, query) # <<>>

\* ------------------------------------------------------------------- C13

\* The calls forEach makes of a callback.
Calls == forEach(store, Some("callback"))

\* Where key stands in the sequence of the keys inserted.
InsertedAt(key) == CHOOSE i \in 1..Len(inserted) : inserted[i] = key

HandedOverBefore(x, y) ==
  IF IsArrayIndex(x)
  THEN ~IsArrayIndex(y) \/ NumVal(x) < NumVal(y)
  ELSE ~IsArrayIndex(y) /\ InsertedAt(x) < InsertedAt(y)

C14_ResetBranchOnlyForTheOnlyKey ==
  [][(last'.op = "remove" /\ last'.branch = "reset") =>
       \E k \in StoredKeys :
         /\ StoredKeys = {k}
         /\ TableKeys(table) = <<k>>
         /\ Len(SocketOf(store, TableGet(table, k)[1])) = 0
         /\ store' = reset
         /\ StoredKeys' = {}
    ]_vars

\* remove has just taken its reset branch and left the store empty.
C14_Witness ==
  /\ last = [op |-> "remove", branch |-> "reset"]
  /\ rootSocket = <<>>
  /\ table = <<>>
  /\ inserted = <<>>

\* ------------------------------------------------------------------- C15

\* C15: set of a key that is stored makes no node and removes none: the root
\* socket, every socket, the nodes and the table entries stay as they are and
\* only the value of the key's node changes, and the other keys keep their
\* values; set called once more with the same key and value changes nothing.
C15_SetOfStoredKeyOnlyReplacesValue ==
  [][(last'.op = "set" /\ last'.branch = "overwrite") =>
       \E p \in contents' :
         LET k == p[1]
             node == TableGet(table, k)[1]
         IN  /\ k \in StoredKeys
             /\ contents' = { r \in contents : r[1] # k } \cup {p}
             /\ TreePaths(store') = TreePaths(store)
             /\ TableKeys(table') = TableKeys(table)
             /\ rootSocket' = rootSocket
             /\ table' = table
             /\ heap' = [heap EXCEPT ![node].value = Some(p[2])]
             /\ get(store', k) = Some(p[2])
             /\ set(store', k, p[2]) = store'
    ]_vars

\* set has just replaced the value of a stored key that other keys pass
\* through, and the new value differs from another key's.
C15_Witness ==
  /\ last = [op |-> "set", branch |-> "overwrite"]
  /\ get(store, <<"a">>) = Some("v2")
  /\ get(store, <<"a", "b">>) = Some("v1")
  /\ TableHas(table, <<"a", "1">>)

\* ------------------------------------------------------------------- C16

\* The node of `query` and the nodes below it.
SubtreeAt(st, query) ==
  LET node == getClosestNode(st, query)
  IN  IF node = Undefined THEN {}
      ELSE { node[1] } \cup { e.node : e \in NodesBelow(st, node[1], query) }

\* C16: for every query and count the loop of match leaves within one pass
\* more than there are nodes, is at no node twice and only at nodes of the
\* subtree under the query's node, at all of them when no count is given; what
\* it has collected then is what match returns.
C16_MatchLoopEndsAndVisitsOnce ==
  \A query \in ForkQueries, count \in Counts :
    LET run == matchWithin(store, query, count, Cardinality(DOMAIN heap) + 1)
        visited == run.visited
    IN  /\ run.done
        /\ \A i, j \in 1..Len(visited) : visited[i] = visited[j] => i = j
        /\ { visited[i] : i \in 1..Len(visited) } \subseteq SubtreeAt(store, query)
        /\ count = Undefined =>
             { visited[i] : i \in 1..Len(visited) } = SubtreeAt(store, query)
        /\ run.result = match(store, query, count)

\* Under "a" there are two forks, and the loop has been at each of the five
\* nodes once, taking a pending node twice.
C16_Witness ==
  LET run == matchWithin(store, <<"a">>, Undefined, Cardinality(DOMAIN heap) + 1)
  IN  /\ getClosestNode(store, <<"a", "b">>) # Undefined
      /\ Len(SocketOf(store, getClosestNode(store, <<"a">>)[1])) >= 2
      /\ Len(SocketOf(store, getClosestNode(store, <<"a", "b">>)[1])) = 2
      /\ run.done
      /\ Len(run.visited) = Cardinality(SubtreeAt(store, <<"a">>))
      /\ Len(run.visited) >= 5

\* ------------------------------------------------------------------- C17

\* The queries tried on the index keys: the keys and their proper prefixes.
IndexQueries == IndexKeys \cup { <<"1">>, <<"0">> }

\* The store after set(key, value) and then remove(key).
SetThenRemove(key, value) == remove(set(store, key, value), key)

matchedKeys(st, query) ==
  LET run == matchWithin(st, query, Undefined, Cardinality(DOMAIN st.heap) + 1)
      named(id) == st.heap[id].name # Undefined
      nodes == SelectSeq(run.visited, named)
  IN  [i \in 1..Len(nodes) |-> st.heap[nodes[i]].name[1]]

\* C18: when a stored key is a proper prefix of another stored key and both
\* start with the query, match gives the value of the shorter key at an
\* earlier place of its result than the value of the longer key.
C18_MatchGivesPrefixKeyFirst ==
  \A query \in ForkQueries :
    LET keys == matchedKeys(store, query)
        result == matchAll(store, query)
    IN  /\ Len(result) = Len(keys)
        /\ \A a, b \in StoredKeys :
             (a # b /\ IsPrefix(a, b) /\ IsPrefix(query, a)) =>
               \E i, j \in 1..Len(result) :
                 /\ i < j
                 /\ keys[i] = a /\ result[i] = Some(ValueOf(a))
                 /\ keys[j] = b /\ result[j] = Some(ValueOf(b))

\* "a", "ab" and "abc" are stored with "ab" last and with a value of its own,
\* and match("a") gives it in the middle.
C18_Witness ==
  /\ inserted = << <<"a", "b", "c">>, <<"a">>, <<"a", "b">> >>
  /\ ValueOf(<<"a", "b">>) # ValueOf(<<"a">>)
  /\ ValueOf(<<"a", "b">>) # ValueOf(<<"a", "b", "c">>)
  /\ matchAll(store, <<"a">>)[2] = Some(ValueOf(<<"a", "b">>))
  /\ matchedKeys(store, <<"a">>) = << <<"a">>, <<"a", "b">>, <<"a", "b", "c">> >>

\* ------------------------------------------------------------------- C19

Min(a, b) == IF a < b THEN a ELSE b

\* C19: for every positive limit, match(query, limit) is the first
\* min(limit, n) values, in their order, of the n values match(query) gives
\* without a limit.
C19_LimitedMatchIsPrefixOfUnlimited ==
  \A query \in ForkQueries :
    LET all == matchAll(store, query)
    IN  \A limit \in 1..MaxLimit :
          match(store, query, Some(limit)) = SubSeq(all, 1, Min(limit, Len(all)))

\* Three values are under "a", the first two different, two of them under
\* "ab": the limits 1 and 2 cut the result after its first and second value,
\* and the limit 3 cuts nothing.
C19_Witness ==
  LET all == matchAll(store, <<"a">>)
  IN  /\ Len(all) = 3
      /\ all[1] # all[2]
      /\ match(store, <<"a">>, Some(1)) = <<all[1]>>
      /\ match(store, <<"a">>, Some(2)) = <<all[1], all[2]>>
      /\ match(store, <<"a">>, Some(3)) = all
      /\ match(store, <<"a", "b">>, Some(3)) = matchAll(store, <<"a", "b">>)
      /\ Len(matchAll(store, <<"a", "b">>)) = 2

====
